---- MODULE Spec2Model ----
(***************************************************************************)
(* A model of the wikipedia markup lexer (lexer.go) and of its driver      *)
(* (package main: parseBracket, parseLink, parseTitle, printElement,       *)
(* main).                                                                  *)
(*                                                                         *)
(* A line is a sequence of one-character strings.  Every character the     *)
(* model reads is ASCII, so utf8.DecodeRuneInString always reports width 1 *)
(* and byte offsets coincide with indices.  Offsets are 0-based as in the  *)
(* Go code: input[start:pos] is SubSeq(input, start + 1, pos).             *)
(*                                                                         *)
(* The lexer runs in its own goroutine and hands every item to the driver  *)
(* over the unbuffered channel l.items.  The goroutine is either between   *)
(* two state functions ("run"), suspended in the channel send of emit or   *)
(* errorf, finished ("done"), between the fmt.Println and the panic of     *)
(* lexXML ("failing"), or has panicked ("panic").                          *)
(***************************************************************************)
EXTENDS Integers, Sequences, FiniteSets, TLC

(***************************************************************************)
(* Bounds of the model.                                                    *)
(***************************************************************************)
\* longest line enumerated character by character over Alphabet
MaxLen == 3
\* longest line enumerated chunk by chunk over Chunks
MaxSegs == 4

(***************************************************************************)
(* Characters.                                                             *)
(***************************************************************************)
\* lexer.go:15  const eof = -1 (a value no character equals)
eof == "eof"

Letter ==
    {"a","b","c","d","e","f","g","h","i","l","m","n","o","p","r","s","t",
     "w","x","y","C","D","H","P","T"}

Digit == {"0","1","2","3","4","5","6","7","8","9"}

\* ASCII characters of the Unicode categories P* that the model reads
Punct == {"{", "}", "[", "]", "'", "-", "_", "/", "\"", "."}

\* ASCII characters of the Unicode categories S* that the model reads
Symbol == {"<", ">", "=", "|"}

\* a control character (category Cc): no letter, digit, mark, symbol,
\* punctuation, and neither ' ' nor '\t'
Control == {"\f"}

Blank == {" ", "\t"}

\* every character a line of the model may hold
Rune == Letter \cup Digit \cup Punct \cup Symbol \cup Control \cup Blank

isAlphaNumeric(r) == r = "_" \/ r \in Letter \/ r \in Digit

isSpace(r) == r = " " \/ r = "\t"

\* unicode.IsMark(r) || unicode.IsSymbol(r) || unicode.IsPunct(r);
\* no ASCII character is a mark
isMarkSymbolPunct(r) == r \in Symbol \/ r \in Punct

(***************************************************************************)
(* Items.                                                                  *)
(***************************************************************************)
itemTypes ==
    <<"itemError", "itemEOF", "itemLeftMeta", "itemRightMeta", "itemLeftTag",
      "itemRightTag", "itemNumber", "itemWord", "itemQuote", "itemSpace",
      "itemMark", "itemXML", "itemTitle">>

\* the integer value of an item type (iota numbering, from 0)
itemTypeValue(t) == (CHOOSE i \in 1..Len(itemTypes) : itemTypes[i] = t) - 1

item(t, v) == [typ |-> t, val |-> v]

(***************************************************************************)
(* The lexer's cursor operations.  Each takes the lexer record and returns *)
(* the record after the call, with the returned rune where there is one.   *)
(*                                                                         *)
(* Besides the fields of the Go struct the record carries the history of   *)
(* the calls made on it, which the struct does not store:                  *)
(*   backups     the number of backup calls since the last call of next    *)
(*   maxBackups  the largest value backups has had                         *)
(*   ranged      whether 0 <= start <= pos <= len(input) has held after    *)
(*               every call so far                                         *)
(***************************************************************************)
\* the cursor after a call that has moved start or moved pos other than
\* forward by one rune inside the input (next does that, under its guard
\* pos < len(input)), with the history of its range brought up to date
moved(l) ==
    [l EXCEPT !.ranged = @ /\ 0 <= l.start /\ l.start <= l.pos
                           /\ l.pos <= Len(l.input)]

lex(input) ==
    [input |-> input, state |-> "lexArticle", start |-> 0, pos |-> 0,
     width |-> 0, backups |-> 0, maxBackups |-> 0, ranged |-> TRUE]

next(l) ==
    IF l.pos >= Len(l.input)
    THEN [l |-> [l EXCEPT !.width = 0, !.backups = 0], r |-> eof]
    ELSE [l |-> [l EXCEPT !.width = 1, !.pos = l.pos + 1, !.backups = 0],
          r |-> l.input[l.pos + 1]]

ignore(l) == moved([l EXCEPT !.start = l.pos])

\* a backup that steps back over two runes
backupTwice(l) ==
    moved([l EXCEPT !.pos = l.pos - 2 * l.width,
                    !.backups = @ + 1,
                    !.maxBackups = IF l.backups + 1 > @ THEN l.backups + 1 ELSE @])

backup(l) ==
    moved([l EXCEPT !.pos = l.pos - l.width,
                    !.backups = @ + 1,
                    !.maxBackups = IF l.backups + 1 > @ THEN l.backups + 1 ELSE @])

peek(l) == LET n == next(l) IN [l |-> backup(n.l), r |-> n.r]

\* strings.IndexRune(valid, r) >= 0; eof is no valid rune and is not found
indexRune(valid, r) == r \in valid

accept(l, valid) ==
    LET n == next(l)
    IN  IF indexRune(valid, n.r)
        THEN [l |-> n.l, ok |-> TRUE]
        ELSE [l |-> backup(n.l), ok |-> FALSE]

RECURSIVE acceptRun(_, _)
acceptRun(l, valid) ==
    LET n == next(l)
    IN  IF indexRune(valid, n.r) THEN acceptRun(n.l, valid) ELSE backup(n.l)

\* the item emit sends: item{t, l.input[l.start:l.pos]}
emit(l, t) == item(t, SubSeq(l.input, l.start + 1, l.pos))

\* what a state function has done when it yields control: it is suspended
\* in a channel send (via "emit" or "errorf") with the state it will
\* return once the send completes, it has returned (via "return"), or it
\* has panicked (via "panic")
Sends(l, t, ret) == [l |-> l, via |-> "emit", item |-> <<emit(l, t)>>, ret |-> ret]

Returns(l, ret) == [l |-> l, via |-> "return", item |-> <<>>, ret |-> ret]

\* a failure reported as an error item, as errorf does, not as a panic
PanicsAsError(l) ==
    [l |-> l, via |-> "errorf", item |-> <<[typ |-> "itemError", val |-> <<>>]>>,
     ret |-> "nil"]

\* err != nil: fmt.Println(err); panic("Error during parsing XML.")
Panics(l) == [l |-> l, via |-> "panic", item |-> <<>>, ret |-> "nil"]

\* strconv.Quote, which %q applies, on the characters of Rune: '"', form
\* feed and tab are written as escapes, every other character as it is
RECURSIVE quoteRunes(_)
quoteRunes(v) ==
    IF v = <<>> THEN <<>>
    ELSE (CASE Head(v) = "\"" -> <<"\\", "\"">>
            [] Head(v) = "\f" -> <<"\\", "f">>
            [] Head(v) = "\t" -> <<"\\", "t">>
            [] OTHER -> <<Head(v)>>) \o quoteRunes(Tail(v))

strconvQuote(v) == <<"\"">> \o quoteRunes(v) \o <<"\"">>

\* fmt.Sprintf("bad number syntax: %q", v)
badNumberSyntax(v) ==
    <<"b","a","d"," ","n","u","m","b","e","r"," ","s","y","n","t","a","x",":"," ">>
        \o strconvQuote(v)

\* errorf sends item{itemError, fmt.Sprintf(format, args...)} and returns
\* nil; text is the formatted message
errorf(l, text) ==
    [l |-> l, via |-> "errorf", item |-> <<item("itemError", text)>>, ret |-> "nil"]

(***************************************************************************)
(* encoding/xml: Decoder.RawToken with Strict = false, on input `b` that   *)
(* starts with '<'.  The model reads start tags, self-closing tags and end *)
(* tags with their attributes; Rune holds none of '?', '!', '&', ':' and   *)
(* no non-ASCII character, so processing instructions, comments,           *)
(* directives, entities and namespace prefixes do not arise.  Indices are  *)
(* 1-based positions of the next byte to read; a result of 0 is a syntax   *)
(* error, a positive result is the number of bytes consumed.               *)
(***************************************************************************)
xmlIsNameByte(c) == c \in Letter \/ c \in Digit \/ c \in {"_", ".", "-"}

\* the first character of a valid XML name
xmlIsNameStart(c) == c \in Letter \/ c = "_"

\* Decoder.space: skips ' ', '\r', '\n', '\t'; the index of the next other
\* byte, or Len(b) + 1 at the end of the input
RECURSIVE xmlSpace(_, _)
xmlSpace(b, i) ==
    IF i <= Len(b) /\ b[i] \in {" ", "\t"} THEN xmlSpace(b, i + 1) ELSE i

\* the index of the first byte from i on that is no name byte, or
\* Len(b) + 1 when the input ends first
RECURSIVE xmlNameEnd(_, _)
xmlNameEnd(b, i) ==
    IF i <= Len(b) /\ xmlIsNameByte(b[i]) THEN xmlNameEnd(b, i + 1) ELSE i

\* Decoder.nsname: reads a name starting at i.  0 when no name byte is at
\* i, when the input ends inside the name (mustgetc fails) or when the
\* name is not a valid XML name; otherwise the index after the name
xmlName(b, i) ==
    IF i > Len(b) \/ ~xmlIsNameByte(b[i]) THEN 0
    ELSE LET j == xmlNameEnd(b, i)
         IN  IF j > Len(b) THEN 0
             ELSE IF ~xmlIsNameStart(b[i]) THEN 0
             ELSE j

\* Decoder.text(quote, false) for a quoted attribute value whose first
\* byte is at i: the index of the closing quote, or 0 on '<', on a
\* character outside the XML character range (text reports it once its
\* loop has ended; every way the loop can end after it is an error too),
\* or when the input ends (the next mustgetc then reports the unexpected
\* EOF).  "]]>" is an error only in text outside a quoted value
\* (quote < 0 in the code); inside the quotes it is read like any text
RECURSIVE xmlText(_, _, _, _, _)
xmlText(b, i, quote, b0, b1) ==
    IF i > Len(b) THEN 0
    ELSE IF quote \notin {"\"", "'"} /\ b0 = "]" /\ b1 = "]" /\ b[i] = ">"
         THEN 0
    ELSE IF b[i] = "<" THEN 0
    ELSE IF b[i] = quote THEN i
    ELSE IF b[i] \in Control THEN 0
    ELSE xmlText(b, i + 1, quote, b1, b[i])

\* Decoder.attrval, unquoted form: the bytes [a-zA-Z0-9_:-]
RECURSIVE xmlUnquotedEnd(_, _)
xmlUnquotedEnd(b, i) ==
    IF i <= Len(b) /\ (b[i] \in Letter \/ b[i] \in Digit \/ b[i] \in {"_", "-"})
    THEN xmlUnquotedEnd(b, i + 1)
    ELSE i

\* the attribute loop of a start tag, from index i: the index of the '>'
\* that ends the tag, or 0
RECURSIVE xmlAttrs(_, _)
xmlAttrs(b, i) ==
    LET j == xmlSpace(b, i)
    IN  IF j > Len(b) THEN 0
        ELSE IF b[j] = "/"
             THEN IF j + 1 <= Len(b) /\ b[j + 1] = ">" THEN j + 1 ELSE 0
        ELSE IF b[j] = ">" THEN j
        ELSE LET k == xmlName(b, j)
                 m == xmlSpace(b, k)
                 n == xmlSpace(b, m + 1)
             IN  IF k = 0 \/ m > Len(b) THEN 0
                 ELSE IF b[m] # "=" THEN xmlAttrs(b, m)
                 ELSE IF n > Len(b) THEN 0
                 ELSE IF b[n] \in {"\"", "'"}
                      THEN LET q == xmlText(b, n + 1, b[n], "", "")
                           IN  IF q = 0 THEN 0 ELSE xmlAttrs(b, q + 1)
                 ELSE LET u == xmlUnquotedEnd(b, n)
                      IN  IF u > Len(b) THEN 0 ELSE xmlAttrs(b, u)

\* Decoder.RawToken on b, b[1] = '<': bytes consumed, or 0 for an error
xmlRawToken(b) ==
    IF Len(b) < 2 THEN 0
    ELSE IF b[2] = "/"
         THEN LET k == xmlName(b, 3)
                  j == xmlSpace(b, k)
              IN  IF k = 0 \/ j > Len(b) \/ b[j] # ">" THEN 0 ELSE j
    ELSE LET k == xmlName(b, 2)
         IN  IF k = 0 THEN 0 ELSE xmlAttrs(b, k)

(***************************************************************************)
(* The error of a failed RawToken: the message of the decoder's            *)
(* SyntaxError, <<>> when the parse succeeds.  The operators follow the    *)
(* same path through the input as xmlName, xmlText, xmlAttrs and           *)
(* xmlRawToken and name the message at each point where those give 0.      *)
(***************************************************************************)
\* SyntaxError.Error(): the decoder is on line 1, a line of the file holds no
\* newline
xmlSyntaxErrorPrefix ==
    <<"X","M","L"," ","s","y","n","t","a","x"," ","e","r","r","o","r"," ",
      "o","n"," ","l","i","n","e"," ","1",":"," ">>

\* Decoder.mustgetc at the end of the input
xmlUnexpectedEOF ==
    <<"u","n","e","x","p","e","c","t","e","d"," ","E","O","F">>

xmlExpectedName ==
    <<"e","x","p","e","c","t","e","d"," ","e","l","e","m","e","n","t"," ",
      "n","a","m","e"," ","a","f","t","e","r"," ","<">>

xmlExpectedEndName ==
    <<"e","x","p","e","c","t","e","d"," ","e","l","e","m","e","n","t"," ",
      "n","a","m","e"," ","a","f","t","e","r"," ","<","/">>

xmlInvalidBetween ==
    <<"i","n","v","a","l","i","d"," ","c","h","a","r","a","c","t","e","r",
      "s"," ","b","e","t","w","e","e","n"," ","<","/">>

xmlAndGt ==
    <<" ","a","n","d"," ",">">>

xmlExpectedSlashGt ==
    <<"e","x","p","e","c","t","e","d"," ","/",">"," ","i","n"," ","e","l",
      "e","m","e","n","t">>

xmlExpectedAttrName ==
    <<"e","x","p","e","c","t","e","d"," ","a","t","t","r","i","b","u","t",
      "e"," ","n","a","m","e"," ","i","n"," ","e","l","e","m","e","n","t">>

xmlUnescapedCDATAEnd ==
    <<"u","n","e","s","c","a","p","e","d"," ","]","]",">"," ","n","o","t",
      " ","i","n"," ","C","D","A","T","A"," ","s","e","c","t","i","o","n">>

xmlUnescapedLt ==
    <<"u","n","e","s","c","a","p","e","d"," ","<"," ","i","n","s","i","d",
      "e"," ","q","u","o","t","e","d"," ","s","t","r","i","n","g">>

\* fmt.Sprintf("illegal character code %U", r) for the form feed, the only
\* character of Rune outside the XML character range
xmlIllegalCharacter ==
    <<"i","l","l","e","g","a","l"," ","c","h","a","r","a","c","t","e","r",
      " ","c","o","d","e"," ","U","+","0","0","0","C">>

xmlInvalidName ==
    <<"i","n","v","a","l","i","d"," ","X","M","L"," ","n","a","m","e",":",
      " ">>

\* Decoder.name from index i; `expected` is the message of the caller when
\* no name byte is at i (readName returns false and sets no error)
xmlNameErr(b, i, expected) ==
    IF i > Len(b) THEN xmlUnexpectedEOF
    ELSE IF ~xmlIsNameByte(b[i]) THEN expected
    ELSE LET j == xmlNameEnd(b, i)
         IN  IF j > Len(b) THEN xmlUnexpectedEOF
             ELSE IF ~xmlIsNameStart(b[i])
                  THEN xmlInvalidName \o SubSeq(b, i, j - 1)
             ELSE <<>>

\* Decoder.text(quote, false) from index i.  The loop stops with an error
\* on '<' and, outside a quoted value only (quote < 0), on "]]>"; it ends
\* at the closing quote or at the end of the input, and only then are the
\* bytes read checked for characters outside the XML character range
\* (`illegal`: one has been read).  At the end of the input with no such
\* character, text returns and the next mustgetc reports the unexpected
\* EOF
RECURSIVE xmlTextErr(_, _, _, _, _, _)
xmlTextErr(b, i, quote, b0, b1, illegal) ==
    IF i > Len(b)
    THEN IF illegal THEN xmlIllegalCharacter ELSE xmlUnexpectedEOF
    ELSE IF quote \notin {"\"", "'"} /\ b0 = "]" /\ b1 = "]" /\ b[i] = ">"
         THEN xmlUnescapedCDATAEnd
    ELSE IF b[i] = "<" THEN xmlUnescapedLt
    ELSE IF b[i] = quote
         THEN IF illegal THEN xmlIllegalCharacter ELSE <<>>
    ELSE xmlTextErr(b, i + 1, quote, b1, b[i], illegal \/ b[i] \in Control)

\* the attribute loop of a start tag, from index i
RECURSIVE xmlAttrsErr(_, _)
xmlAttrsErr(b, i) ==
    LET j == xmlSpace(b, i)
    IN  IF j > Len(b) THEN xmlUnexpectedEOF
        ELSE IF b[j] = "/"
             THEN IF j + 1 > Len(b) THEN xmlUnexpectedEOF
                  ELSE IF b[j + 1] # ">" THEN xmlExpectedSlashGt
                  ELSE <<>>
        ELSE IF b[j] = ">" THEN <<>>
        ELSE LET e == xmlNameErr(b, j, xmlExpectedAttrName)
                 k == xmlName(b, j)
                 m == xmlSpace(b, k)
                 n == xmlSpace(b, m + 1)
             IN  IF e # <<>> THEN e
                 ELSE IF m > Len(b) THEN xmlUnexpectedEOF
                 ELSE IF b[m] # "=" THEN xmlAttrsErr(b, m)
                 ELSE IF n > Len(b) THEN xmlUnexpectedEOF
                 ELSE IF b[n] \in {"\"", "'"}
                      THEN LET t == xmlTextErr(b, n + 1, b[n], "", "", FALSE)
                           IN  IF t # <<>> THEN t
                               ELSE xmlAttrsErr(b, xmlText(b, n + 1, b[n], "", "") + 1)
                 ELSE LET u == xmlUnquotedEnd(b, n)
                      IN  IF u > Len(b) THEN xmlUnexpectedEOF
                          ELSE xmlAttrsErr(b, u)

\* the message of the error Decoder.RawToken returns on b, b[1] = '<'
xmlRawTokenErr(b) ==
    IF Len(b) < 2 THEN xmlUnexpectedEOF
    ELSE IF b[2] = "/"
         THEN LET e == xmlNameErr(b, 3, xmlExpectedEndName)
                  k == xmlName(b, 3)
                  j == xmlSpace(b, k)
              IN  IF e # <<>> THEN e
                  ELSE IF j > Len(b) THEN xmlUnexpectedEOF
                  ELSE IF b[j] # ">"
                       THEN xmlInvalidBetween \o SubSeq(b, 3, k - 1) \o xmlAndGt
                  ELSE <<>>
    ELSE LET e == xmlNameErr(b, 2, xmlExpectedName)
         IN  IF e # <<>> THEN e ELSE xmlAttrsErr(b, xmlName(b, 2))

\* what fmt.Println(err) writes when lexXML fails at l.pos: the text of the
\* SyntaxError and a newline
xmlErrorLine(l) ==
    xmlSyntaxErrorPrefix
        \o xmlRawTokenErr(SubSeq(l.input, l.pos + 1, Len(l.input)))
        \o <<"\n">>

(***************************************************************************)
(* The state functions.                                                    *)
(***************************************************************************)
lexNumber(l) ==
    LET digits == Digit
        l1 == acceptRun(l, digits)
        a  == accept(l1, {"."})
        l2 == IF a.ok THEN acceptRun(a.l, digits) ELSE a.l
        p  == peek(l2)
    IN  IF isAlphaNumeric(p.r)
        THEN LET l3 == next(p.l).l
             IN  errorf(l3, badNumberSyntax(SubSeq(l3.input, l3.start + 1, l3.pos)))
        ELSE Sends(p.l, "itemNumber", "lexArticle")

\* `case r == c && l.peek() == c`: peek is called only when r == c, and
\* leaves its width behind when the case does not match
lexArticleDelim(l, r, c) == IF r = c THEN peek(l) ELSE [l |-> l, r |-> eof]

\* an end of input that stops the scan without emitting itemEOF
lexArticleEOFSilent(l) == Returns(l, "nil")

\* case r == eof: l.emit(itemEOF); return nil
lexArticleEOF(l) == Sends(l, "itemEOF", "nil")

\* a scan that skips the character with l.ignore()
lexArticleIgnore(l) == Returns(ignore(l), "lexArticle")

\* no case of the switch matches: return lexArticle, the character still
\* pending between start and pos
lexArticleOther(l) == Returns(l, "lexArticle")

lexArticle(l) ==
    LET n  == next(l)
        r  == n.r
        p1 == lexArticleDelim(n.l, r, "{")
        p2 == lexArticleDelim(p1.l, r, "}")
        p3 == lexArticleDelim(p2.l, r, "[")
        p4 == lexArticleDelim(p3.l, r, "]")
    IN  IF r = eof THEN lexArticleEOF(n.l)
        ELSE IF r = "{" /\ p1.r = "{"
             THEN Sends(next(p1.l).l, "itemLeftMeta", "lexArticle")
        ELSE IF r = "}" /\ p2.r = "}"
             THEN Sends(next(p2.l).l, "itemRightMeta", "lexArticle")
        ELSE IF r = "[" /\ p3.r = "["
             THEN Sends(next(p3.l).l, "itemLeftTag", "lexArticle")
        ELSE IF r = "]" /\ p4.r = "]"
             THEN Sends(next(p4.l).l, "itemRightTag", "lexArticle")
        ELSE IF r = "'" THEN Returns(p4.l, "lexQuote")
        ELSE IF r = "<" THEN Returns(backup(p4.l), "lexXML")
        ELSE IF r = "=" THEN Returns(p4.l, "lexTitle")
        ELSE IF isSpace(r) THEN Returns(p4.l, "lexSpace")
        ELSE IF isMarkSymbolPunct(r) THEN Sends(p4.l, "itemMark", "lexArticle")
        ELSE IF isAlphaNumeric(r) THEN Returns(p4.l, "lexWord")
        ELSE lexArticleOther(p4.l)

\* for cond(l.peek()) { l.next() }
RECURSIVE lexSpaceRun(_)
lexSpaceRun(l) ==
    LET p == peek(l)
    IN  IF isSpace(p.r) THEN lexSpaceRun(next(p.l).l) ELSE p.l

\* a space scan that stops after the first space
lexSpaceSingle(l) == Sends(l, "itemSpace", "lexArticle")

lexSpace(l) == Sends(lexSpaceRun(l), "itemSpace", "lexArticle")

\* a word scan without the check for a doubled apostrophe
RECURSIVE lexWordGreedy(_)
lexWordGreedy(l) ==
    LET n == next(l)
        r == n.r
    IN  IF isAlphaNumeric(r) \/ r = "-" \/ r = "'"
        THEN lexWordGreedy(n.l)
        ELSE Sends(backup(n.l), "itemWord", "lexArticle")

\* the loop of lexWord; peek is called only when r is an apostrophe
RECURSIVE lexWord(_)
lexWord(l) ==
    LET n == next(l)
        r == n.r
        p == IF r = "'" THEN peek(n.l) ELSE [l |-> n.l, r |-> eof]
    IN  IF r = "'" /\ p.r = "'"
        THEN Sends(backup(p.l), "itemWord", "lexArticle")
        ELSE IF isAlphaNumeric(r) \/ r = "-" \/ r = "'"
             THEN lexWord(p.l)
             ELSE Sends(backup(p.l), "itemWord", "lexArticle")

RECURSIVE lexQuoteRun(_)
lexQuoteRun(l) ==
    LET p == peek(l)
    IN  IF p.r = "'" THEN lexQuoteRun(next(p.l).l) ELSE p.l

lexQuote(l) == Sends(lexQuoteRun(l), "itemQuote", "lexArticle")

RECURSIVE lexTitleRun(_)
lexTitleRun(l) ==
    LET p == peek(l)
    IN  IF p.r = "=" THEN lexTitleRun(next(p.l).l) ELSE p.l

lexTitle(l) == Sends(lexTitleRun(l), "itemTitle", "lexArticle")

lexXML(l) ==
    LET consumed == xmlRawToken(SubSeq(l.input, l.pos + 1, Len(l.input)))
    IN  IF consumed = 0
        THEN Panics(l)
        ELSE Sends(moved([l EXCEPT !.pos = l.pos + consumed]), "itemXML",
                   "lexArticle")

\* a dispatch that sends a word starting with a digit to lexNumber
stateFnNumbers(l) ==
    CASE l.state = "lexArticle" -> lexArticle(l)
      [] l.state = "lexSpace"   -> lexSpace(l)
      [] l.state = "lexWord"    ->
             IF l.input[l.pos] \in Digit THEN lexNumber(l) ELSE lexWord(l)
      [] l.state = "lexQuote"   -> lexQuote(l)
      [] l.state = "lexTitle"   -> lexTitle(l)
      [] l.state = "lexXML"     -> lexXML(l)
      [] l.state = "lexNumber"  -> lexNumber(l)

\* l.state(l): the call of the state function l.state names
stateFn(l) ==
    CASE l.state = "lexArticle" -> lexArticle(l)
      [] l.state = "lexSpace"   -> lexSpace(l)
      [] l.state = "lexWord"    -> lexWord(l)
      [] l.state = "lexQuote"   -> lexQuote(l)
      [] l.state = "lexTitle"   -> lexTitle(l)
      [] l.state = "lexXML"     -> lexXML(l)
      [] l.state = "lexNumber"  -> lexNumber(l)

\* a lexer whose emit forgets l.start = l.pos
sentKeepsStart(lx, gr) == [lx EXCEPT !.state = gr.ret]

\* the lexer after its pending send has completed: emit sets start to pos,
\* the state function returns gr.ret, and run stores it in l.state
sent(lx, gr) ==
    IF gr.via = "emit"
    THEN moved([lx EXCEPT !.start = lx.pos, !.state = gr.ret])
    ELSE [lx EXCEPT !.state = gr.ret]

(***************************************************************************)
(* The whole scan of one line, as the sequence of items sent: the state    *)
(* functions applied from lex(input) until the next state is nil or the    *)
(* scan panics.  `panic` tells whether it ended in a panic.                *)
(***************************************************************************)
RECURSIVE scanFrom(_, _)
scanFrom(l, done) ==
    LET f == stateFn(l)
    IN  IF f.via = "panic" THEN [items |-> done, panic |-> TRUE]
        ELSE IF f.ret = "nil" THEN [items |-> done \o f.item, panic |-> FALSE]
        ELSE scanFrom(sent(f.l, f), done \o f.item)

tokenize(input) == scanFrom(lex(input), <<>>)

(***************************************************************************)
(* The structural consumers and the printers of package main.              *)
(***************************************************************************)
\* a matcher that does not count nested openers
parseBracketFlat(depth, s, left, right) ==
    IF s.typ = "itemEOF" THEN [depth |-> depth, ret |-> TRUE]
    ELSE LET d2 == IF s.typ = right THEN depth - 1 ELSE depth
         IN  [depth |-> d2, ret |-> d2 = 0]

\* one pass of parseBracket's loop on the item s just received: the new
\* depth, and whether the function returns
parseBracket(depth, s, left, right) ==
    IF s.typ = "itemEOF" THEN [depth |-> depth, ret |-> TRUE]
    ELSE LET d1 == IF s.typ = left THEN depth + 1 ELSE depth
             d2 == IF s.typ = right THEN d1 - 1 ELSE d1
         IN  [depth |-> d2, ret |-> d2 = 0]

\* an extractor that keeps what precedes a pipe
parseLinkNoReset(text, s) ==
    IF s.typ = "itemEOF" THEN [text |-> text, ret |-> TRUE]
    ELSE [text |-> Append(text, s), ret |-> s.typ = "itemRightTag"]

\* one pass of parseLink's loop: the new buffer, and whether it returns
parseLink(text, s) ==
    IF s.typ = "itemEOF" THEN [text |-> text, ret |-> TRUE]
    ELSE LET t1 == Append(text, s)
             t2 == IF s.typ = "itemMark" /\ s.val = <<"|">> THEN <<>> ELSE t1
         IN  [text |-> t2, ret |-> s.typ = "itemRightTag"]

\* an extractor that closes only on a marker as long as the opening one
parseTitleStrict(result, s, level) ==
    IF s.typ = "itemEOF" THEN [result |-> result, ret |-> TRUE]
    ELSE [result |-> Append(result, s),
          ret |-> s.typ = "itemTitle" /\ Len(s.val) = level]

\* one pass of parseTitle's loop: the new buffer, and whether it returns
parseTitle(result, s, level) ==
    IF s.typ = "itemEOF" THEN [result |-> result, ret |-> TRUE]
    ELSE [result |-> Append(result, s), ret |-> s.typ = "itemTitle"]

\* decimal digits of a natural number, as fmt prints an int
RECURSIVE itoa(_)
itoa(n) ==
    LET d == <<"0","1","2","3","4","5","6","7","8","9">>
    IN  IF n < 10 THEN <<d[n + 1]>> ELSE itoa(n \div 10) \o <<d[(n % 10) + 1]>>

\* the characters printElement writes for elt
printElement(elt) ==
    IF elt.typ = "itemWord" \/ elt.typ = "itemSpace" \/ elt.typ = "itemMark"
    THEN elt.val
    ELSE <<>>

\* fmt.Print("(", s.typ, " "); fmt.Print(s.val, ")  ")
printDebug(elt) ==
    <<"(">> \o itoa(itemTypeValue(elt.typ)) \o <<" ">> \o elt.val \o <<")", " ", " ">>

\* what main writes for an item it renders itself or gets from parseLink
printItem(flag, elt) == IF flag THEN printDebug(elt) ELSE printElement(elt)

RECURSIVE printItems(_, _)
printItems(flag, elts) ==
    IF elts = <<>> THEN <<>>
    ELSE printItem(flag, Head(elts)) \o printItems(flag, Tail(elts))

\* fmt.Println("count ", count)
printCount(n) == <<"c","o","u","n","t"," "," ">> \o itoa(n) \o <<"\n">>

(***************************************************************************)
(* Input lines.                                                            *)
(***************************************************************************)
\* the characters of the lines enumerated character by character
Alphabet == {"{", "}", "[", "'", "<", ">", "=", " ", "a", "\f"}

\* the pieces of the lines enumerated chunk by chunk
Chunks == {<<"{","{">>, <<"}","}">>, <<"[","[">>, <<"]","]">>, <<"|">>, <<"a">>}

RECURSIVE Flatten(_)
Flatten(ss) == IF ss = <<>> THEN <<>> ELSE Head(ss) \o Flatten(Tail(ss))

CharLines == UNION {[1..n -> Alphabet] : n \in 0..MaxLen}

ChunkLines == {Flatten(cs) : cs \in UNION {[1..n -> Chunks] : n \in 0..MaxSegs}}

\* hello world
LineHelloWorld ==
    <<"h","e","l","l","o"," ","w","o","r","l","d">>
\* {{cite|a={{x}}|b}} after
LineNestedTemplate ==
    <<"{","{","c","i","t","e","|","a","=","{","{","x","}","}","|","b","}","}"," ","a","f","t","e","r">>
\* [[Paris|the City]] is nice
LineParis ==
    <<"[","[","P","a","r","i","s","|","t","h","e"," ","C","i","t","y","]","]"," ","i","s"," ","n","i","c","e">>
\* == History ==
LineHistory ==
    <<"=","="," ","H","i","s","t","o","r","y"," ","=","=">>
\* <ref name="x"/>
LineRef ==
    <<"<","r","e","f"," ","n","a","m","e","=","\"","x","\"","/",">">>
\* don't stop
LineDontStop ==
    <<"d","o","n","'","t"," ","s","t","o","p">>
\* [[Target|Display text]]
LinePiped ==
    <<"[","[","T","a","r","g","e","t","|","D","i","s","p","l","a","y"," ","t","e","x","t","]","]">>
\* [[Target]]
LineTarget ==
    <<"[","[","T","a","r","g","e","t","]","]">>
\* == Heading ==
LineHeading ==
    <<"=","="," ","H","e","a","d","i","n","g"," ","=","=">>
\* == Title ===
LineMismatch ==
    <<"=","="," ","T","i","t","l","e"," ","=","=","=">>
\* in 1999
LineYear ==
    <<"i","n"," ","1","9","9","9">>
\* 3.14a
LineDecimal ==
    <<"3",".","1","4","a">>
\* <a b=']]>'> ("]]>" inside a quoted attribute value)
LineQuotedCDATAEnd ==
    <<"<","a"," ","b","=","'","]","]",">","'",">">>
\* }[] (closing and square delimiters on their own)
LineSingles ==
    <<"}","[","]">>

ExampleLines ==
    {LineHelloWorld, LineNestedTemplate, LineParis, LineHistory, LineRef,
     LineDontStop, LinePiped, LineTarget, LineHeading, LineMismatch,
     LineYear, LineDecimal, LineQuotedCDATAEnd, LineSingles}

Lines == CharLines \cup ChunkLines \cup ExampleLines

(***************************************************************************)
(* State.                                                                  *)
(***************************************************************************)
VARIABLES
    printLex,   \* *printLex, the value of the print-lex flag variable
    pc,         \* where the main goroutine is
    l,          \* the lexer of the current line (the struct's fields)
    g,          \* the goroutine running l.run: [at, via, ret]
    items,      \* l.items: <<>>, or <<it>> while a send of `it` waits
    s,          \* the item the last nextItem returned
    depth,      \* parseBracket's depth
    text,       \* parseLink's text
    result,     \* parseTitle's result
    level,      \* parseTitle's level
    count,      \* main's count
    out,        \* standard output written in the current pass of main's loop
    suspended,  \* goroutines of earlier lines still waiting in a send
    produced,   \* history: items the current lexer has reached a send for
    received    \* history: [by, tok] for each item nextItem has returned

vars ==
    <<printLex, pc, l, g, items, s, depth, text, result, level, count,
      out, suspended, produced, received>>

noItem == item("itemError", <<>>)

running == [at |-> "run", via |-> "", ret |-> ""]

\* l.state is nil and run has returned
finished == [at |-> "done", via |-> "", ret |-> ""]

\* a panic in any goroutine, or main returning, ends the process
Alive == g.at # "panic" /\ pc # "exit"

\* flag.Bool("print-lex", false, ...) sets *printLex to the default, and
\* main never calls flag.Parse, so the command line does not change it
Init ==
    /\ printLex = FALSE
    /\ pc = "scan"
    /\ l = [lex(<<>>) EXCEPT !.state = "nil"]
    /\ g = [at |-> "none", via |-> "", ret |-> ""]
    /\ items = <<>>
    /\ s = noItem
    /\ depth = 0
    /\ text = <<>>
    /\ result = <<>>
    /\ level = 0
    /\ count = 0
    /\ out = <<>>
    /\ suspended = 0
    /\ produced = <<>>
    /\ received = <<>>

(***************************************************************************)
(* The lexer goroutine.                                                    *)
(***************************************************************************)
\* a lexer whose send does not wait for the receiver: it goes on scanning
\* while an item is still pending
runUnblocked ==
    /\ Alive
    /\ g.at = "run" \/ (g.at = "send" /\ g.ret # "nil")
    /\ LET f == stateFn(IF g.at = "send" THEN sent(l, g) ELSE l)
       IN  /\ f.via # "panic"
           /\ l' = IF f.via = "return" THEN [f.l EXCEPT !.state = f.ret] ELSE f.l
           /\ g' = IF f.via = "return" THEN running
                   ELSE [at |-> "send", via |-> f.via, ret |-> f.ret]
           /\ items' = IF f.item = <<>> THEN items ELSE f.item
           /\ produced' = produced \o f.item
    /\ UNCHANGED <<printLex, pc, s, depth, text, result, level, count, out,
                   suspended, received>>

\* lexer.run: one call l.state = l.state(l), up to the point where the
\* state function returns, waits in a channel send, or has written the
\* error of a failed XML parse
run ==
    /\ Alive
    /\ g.at = "run"
    /\ LET f == stateFn(l)
       IN  CASE f.via = "return" ->
                  /\ l' = [f.l EXCEPT !.state = f.ret]
                  /\ g' = IF f.ret = "nil" THEN finished ELSE g
                  /\ UNCHANGED <<items, produced, out>>
             [] f.via \in {"emit", "errorf"} ->
                  /\ l' = f.l
                  /\ g' = [at |-> "send", via |-> f.via, ret |-> f.ret]
                  /\ items' = f.item
                  /\ produced' = produced \o f.item
                  /\ out' = out
             [] f.via = "panic" ->
                  /\ l' = f.l
                  /\ g' = [at |-> "failing", via |-> "", ret |-> ""]
                  /\ out' = out \o xmlErrorLine(f.l)
                  /\ UNCHANGED <<items, produced>>
    /\ UNCHANGED <<printLex, pc, s, depth, text, result, level, count,
                   suspended, received>>

\* lexXML's panic("Error during parsing XML."), after fmt.Println(err) has
\* returned: nothing recovers it and the process ends.  Until this step
\* the main goroutine goes on running
runPanic ==
    /\ Alive
    /\ g.at = "failing"
    /\ g' = [at |-> "panic", via |-> "", ret |-> ""]
    /\ UNCHANGED <<printLex, pc, l, items, s, depth, text, result, level,
                   count, out, suspended, produced, received>>

(***************************************************************************)
(* The main goroutine.                                                     *)
(***************************************************************************)
NextSites == {"main", "bracket", "link", "title"}

site == IF pc = "main_next" THEN "main"
        ELSE IF pc = "bracket_next" THEN "bracket"
        ELSE IF pc = "link_next" THEN "link"
        ELSE IF pc = "title_next" THEN "title"
        ELSE "none"

\* scanner.Scan() delivers a line; lexer := lex(str); count := 0
mainScan ==
    /\ Alive
    /\ pc = "scan"
    /\ \E str \in Lines : l' = lex(str)
    /\ g' = running
    /\ count' = 0
    /\ pc' = "main_next"
    /\ UNCHANGED <<printLex, items, s, depth, text, result, level, out, suspended, produced, received>>

\* scanner.Scan() reports the end of the file and main returns
mainExit ==
    /\ Alive
    /\ pc = "scan"
    /\ pc' = "exit"
    /\ UNCHANGED <<printLex, l, g, items, s, depth, text, result, level,
                   count, out, suspended, produced, received>>

\* a receive that leaves the item with the sender
nextItemKeeps ==
    /\ Alive
    /\ site \in NextSites
    /\ items # <<>>
    /\ s' = Head(items)
    /\ received' = Append(received, [by |-> site, tok |-> Head(items)])
    /\ pc' = CASE site = "main" -> "main_body"
               [] site = "bracket" -> "bracket_body"
               [] site = "link" -> "link_body"
               [] site = "title" -> "title_body"
    /\ UNCHANGED <<printLex, l, g, items, depth, text, result, level, count, out,
                   suspended, produced>>

\* lexer.nextItem: the receive meets the lexer's pending send
nextItem ==
    /\ Alive
    /\ site \in NextSites
    /\ items # <<>>
    /\ s' = Head(items)
    /\ items' = <<>>
    /\ l' = sent(l, g)
    /\ g' = IF g.ret = "nil" THEN finished ELSE running
    /\ received' = Append(received, [by |-> site, tok |-> Head(items)])
    /\ pc' = CASE site = "main" -> "main_body"
               [] site = "bracket" -> "bracket_body"
               [] site = "link" -> "link_body"
               [] site = "title" -> "title_body"
    /\ UNCHANGED <<printLex, depth, text, result, level, count, out,
                   suspended, produced>>

\* a loop that also ends on a stray "}}"
mainLoopCondEarly(it) == it.typ # "itemEOF" /\ it.typ # "itemRightMeta"

\* main's loop condition: s.typ != itemEOF
mainLoopCond(it) == it.typ # "itemEOF"

\* main's loop condition and body for the item s
mainBody ==
    /\ Alive
    /\ pc = "main_body"
    /\ IF ~mainLoopCond(s)
       THEN /\ pc' = "count"
            /\ UNCHANGED <<depth, text, result, level, count, out>>
       ELSE IF s.typ = "itemLeftMeta"
       THEN /\ pc' = "bracket_next"
            /\ depth' = 1
            /\ UNCHANGED <<text, result, level, count, out>>
       ELSE IF s.typ = "itemLeftTag"
       THEN /\ pc' = "link_next"
            /\ text' = <<>>
            /\ UNCHANGED <<depth, result, level, count, out>>
       ELSE IF s.typ = "itemTitle"
       THEN /\ pc' = "title_next"
            /\ out' = out \o <<"\n">>
            /\ result' = <<>>
            /\ level' = Len(s.val)
            /\ UNCHANGED <<depth, text, count>>
       ELSE /\ pc' = "main_next"
            /\ count' = count + 1
            /\ out' = out \o printItem(printLex, s)
            /\ UNCHANGED <<depth, text, result, level>>
    /\ UNCHANGED <<printLex, l, g, items, s, suspended, produced,
                   received>>

\* parseBracket's loop condition and body for the item s
bracketBody ==
    /\ Alive
    /\ pc = "bracket_body"
    /\ LET b == parseBracket(depth, s, "itemLeftMeta", "itemRightMeta")
       IN  IF b.ret
           THEN pc' = "main_next" /\ depth' = 0
           ELSE pc' = "bracket_next" /\ depth' = b.depth
    /\ UNCHANGED <<printLex, l, g, items, s, text, result, level, count,
                   out, suspended, produced, received>>

\* parseLink's loop condition and body for the item s; on return main
\* ranges over the slice returned, which the model keeps in text
linkBody ==
    /\ Alive
    /\ pc = "link_body"
    /\ LET b == parseLink(text, s)
       IN  /\ text' = b.text
           /\ pc' = IF ~b.ret THEN "link_next"
                    ELSE IF b.text = <<>> THEN "main_next"
                    ELSE "link_range"
    /\ UNCHANGED <<printLex, l, g, items, s, depth, result, level, count, out,
                   suspended, produced, received>>

\* one pass of main's loop over the items parseLink returned: count += 1
\* and the item is printed
linkRange ==
    /\ Alive
    /\ pc = "link_range"
    /\ count' = count + 1
    /\ out' = out \o printItem(printLex, Head(text))
    /\ text' = Tail(text)
    /\ pc' = IF Tail(text) = <<>> THEN "main_next" ELSE "link_range"
    /\ UNCHANGED <<printLex, l, g, items, s, depth, result, level,
                   suspended, produced, received>>

\* parseTitle's loop condition and body for the item s; on return main
\* ranges over the slice returned, which the model keeps in result
titleBody ==
    /\ Alive
    /\ pc = "title_body"
    /\ LET b == parseTitle(result, s, level)
       IN  /\ result' = b.result
           /\ pc' = IF b.ret THEN "title_range" ELSE "title_next"
    /\ UNCHANGED <<printLex, l, g, items, s, depth, text, level, count, out,
                   suspended, produced, received>>

\* one pass of main's loop over the items parseTitle returned:
\* printElement(s); after the last one, the closing fmt.Println()
titleRange ==
    /\ Alive
    /\ pc = "title_range"
    /\ IF result = <<>>
       THEN /\ out' = out \o <<"\n">>
            /\ level' = 0
            /\ pc' = "main_next"
            /\ UNCHANGED result
       ELSE /\ out' = out \o printElement(Head(result))
            /\ result' = Tail(result)
            /\ UNCHANGED <<level, pc>>
    /\ UNCHANGED <<printLex, l, g, items, s, depth, text, count,
                   suspended, produced, received>>

\* fmt.Println("count ", count)
mainCount ==
    /\ Alive
    /\ pc = "count"
    /\ out' = out \o printCount(count)
    /\ pc' = "bottom"
    /\ UNCHANGED <<printLex, l, g, items, s, depth, text, result, level, count,
                   suspended, produced, received>>

\* the end of the loop body: str, lexer, count and s go out of scope and
\* main is back at scanner.Scan().  A lexer goroutine that still waits in
\* a send stays suspended for good: nothing receives from its channel any
\* more
mainBottom ==
    /\ Alive
    /\ pc = "bottom"
    /\ suspended' = IF g.at = "send" THEN suspended + 1 ELSE suspended
    /\ l' = [lex(<<>>) EXCEPT !.state = "nil"]
    /\ g' = [at |-> "none", via |-> "", ret |-> ""]
    /\ items' = <<>>
    /\ s' = noItem
    /\ count' = 0
    /\ out' = <<>>
    /\ produced' = <<>>
    /\ received' = <<>>
    /\ pc' = "scan"
    /\ UNCHANGED <<printLex, depth, text, result, level>>

Next ==
    \/ run
    \/ runPanic
    \/ mainScan
    \/ mainExit
    \/ nextItem
    \/ mainBody
    \/ bracketBody
    \/ linkBody
    \/ linkRange
    \/ titleBody
    \/ titleRange
    \/ mainCount
    \/ mainBottom

Spec == Init /\ [][Next]_vars

\* run can take a step: the lexer goroutine is between two state functions
\* (every state function does return, wait in a send, or panic, and so
\* changes l or g)
RunEnabled == Alive /\ g.at = "run"

\* The Go scheduler runs every goroutine that can run.  The first conjunct
\* is weak fairness of run, written with RunEnabled for ENABLED <<run>>_vars
FairSpec ==
    /\ Spec
    /\ ([]<>(~RunEnabled) \/ []<><<run>>_vars)
    /\ WF_vars(runPanic)
    /\ WF_vars(nextItem)
    /\ WF_vars(mainBody \/ bracketBody \/ linkBody \/ linkRange \/ titleBody
                \/ titleRange \/ mainCount \/ mainBottom)

(***************************************************************************)
(* Definitions the properties share.                                       *)
(***************************************************************************)
Last(q) == q[Len(q)]

\* the items nextItem has returned for the current line, in order
Delivered == [i \in 1..Len(received) |-> received[i].tok]

isTerminal(it) == it.typ = "itemEOF" \/ it.typ = "itemError"

TerminalsDelivered == {i \in 1..Len(Delivered) : isTerminal(Delivered[i])}

\* the lexer goroutine of the current line has ended
LexerEnded == g.at \in {"done", "failing", "panic"}

\* the scan of the current line runs into a failing XML parse
XMLFails == tokenize(l.input).panic

(***************************************************************************)
(* C1.  Original statement: for every input line, once the lexer has       *)
(* ended, exactly one terminal item (EndOfInput or Error) has been         *)
(* delivered and it is the last item delivered.  It fails on a line whose  *)
(* XML parse fails: the goroutine panics and no terminal item is sent.     *)
(***************************************************************************)
C1_OneTerminalOnEveryLine ==
    LexerEnded => TerminalsDelivered = {Len(Delivered)} /\ Delivered # <<>>

(***************************************************************************)
(* C1, amended.  At most one terminal item is ever delivered for a line    *)
(* and nothing is delivered after it.  On a line whose XML parse does not  *)
(* fail the lexer ends by returning, never by a panic, and has then        *)
(* delivered exactly one terminal item, an EndOfInput, as the last item.   *)
(* On a line whose XML parse fails the lexer ends by the panic, never by   *)
(* returning: no terminal item has been delivered when the parse fails,    *)
(* and after the panic nothing is delivered any more.  On every line the   *)
(* lexer does end, one way or the other.                                   *)
(***************************************************************************)
C1_StreamShape ==
    /\ \A i \in TerminalsDelivered : i = Len(Delivered)
    /\ g.at = "done" =>
          /\ ~XMLFails
          /\ TerminalsDelivered = {Len(Delivered)}
          /\ Delivered # <<>>
          /\ Last(Delivered).typ = "itemEOF"
    /\ g.at \in {"failing", "panic"} =>
          /\ XMLFails
          /\ TerminalsDelivered = {}
          /\ items = <<>>

C1_PanicEndsDelivery ==
    g.at = "panic" => received' = received /\ g' = g

C1_OneTerminalUnlessXMLFails ==
    /\ []C1_StreamShape
    /\ [][C1_PanicEndsDelivery]_vars
    /\ (g.at = "run") ~> (g.at \in {"done", "panic"})

C1_Witness ==
    /\ g.at = "done"
    /\ Len(Delivered) >= 3
    /\ Last(Delivered).typ = "itemEOF"

(***************************************************************************)
(* C2.  On every line whose XML parse does not fail, main's loop for the   *)
(* line ends and the count line is written.  The code does not do that: a  *)
(* consumer that receives EndOfInput returns to main, whose next nextItem  *)
(* waits on a channel nobody sends on any more.                            *)
(***************************************************************************)
C2_LineTerminates ==
    (pc = "main_next" /\ received = <<>> /\ ~XMLFails) ~> (pc = "bottom")

(***************************************************************************)
(* C3.  The items received, by main and the consumers together and in the  *)
(* order received, are the items the lexer produced, each once and in the  *)
(* order produced; each is received by exactly one receiver; and when the  *)
(* lexer has finished every produced item has been received.               *)
(***************************************************************************)
C3_ReceivedInProductionOrder ==
    /\ Len(received) <= Len(produced)
    /\ Delivered = SubSeq(produced, 1, Len(received))
    /\ \A i \in 1..Len(received) : received[i].by \in NextSites
    /\ g.at = "done" => Delivered = produced
    /\ Delivered = SubSeq(tokenize(l.input).items, 1, Len(received))

C3_Witness ==
    /\ g.at = "done"
    /\ {received[i].by : i \in 1..Len(received)} = {"main", "bracket", "link"}

(***************************************************************************)
(* C4.  The lexer has reached a send for at most one item more than have   *)
(* been received, and it is scanning only while no item is pending.        *)
(***************************************************************************)
C4_AtMostOneAhead ==
    /\ Len(received) <= Len(produced)
    /\ Len(produced) <= Len(received) + 1
    /\ (g.at = "send") = (Len(produced) = Len(received) + 1)
    /\ (g.at = "send") = (items # <<>>)

C4_Witness ==
    /\ g.at = "send"
    /\ Len(produced) = 3
    /\ pc = "main_body"

(***************************************************************************)
(* C5.  When main leaves the loop body of a line, that line's lexer has    *)
(* delivered EndOfInput and its goroutine has returned; no goroutine of an *)
(* earlier line is ever left waiting in a send.                            *)
(***************************************************************************)
C5_DrainedBeforeNextLine ==
    /\ suspended = 0
    /\ pc \in {"count", "bottom"} =>
          /\ g.at = "done"
          /\ items = <<>>
          /\ received # <<>>
          /\ Last(Delivered).typ = "itemEOF"
    /\ pc = "scan" => g.at = "none"

C5_Witness ==
    /\ pc = "bottom"
    /\ Len(received) >= 3
    /\ g.at = "done"

(***************************************************************************)
(* The part of `received` a structural consumer has received in its        *)
(* current (or, once it has returned, its last) call: the run of entries   *)
(* by that consumer at the end of `received`.  Every call follows an item  *)
(* received by main, so two calls never run together.                      *)
(***************************************************************************)
RECURSIVE CallLen(_, _)
CallLen(who, n) ==
    IF n = 0 \/ received[n].by # who THEN 0 ELSE 1 + CallLen(who, n - 1)

CallItems(who) ==
    LET k == CallLen(who, Len(received))
    IN  SubSeq(Delivered, Len(received) - k + 1, Len(received))

Front(q) == SubSeq(q, 1, Len(q) - 1)

\* the items of the whole line, and those that follow the first n
AllItems == tokenize(l.input).items

ItemsAfter(n) == SubSeq(AllItems, n + 1, Len(AllItems))

\* the rendered form has been chosen and the line's loop has ended
Rendered == ~printLex /\ pc = "count"

(***************************************************************************)
(* C6.  The template depth after the first m items that follow an opening  *)
(* LeftMeta, and the position of the RightMeta that matches it (0 if none).*)
(***************************************************************************)
DepthAfter(ts, m) ==
    1 + Cardinality({i \in 1..m : ts[i].typ = "itemLeftMeta"})
      - Cardinality({i \in 1..m : ts[i].typ = "itemRightMeta"})

MatchingClose(ts) ==
    LET closes == {m \in 1..Len(ts) : DepthAfter(ts, m) = 0}
    IN  IF closes = {} THEN 0 ELSE CHOOSE m \in closes : \A k \in closes : m <= k

\* the items of ts outside every closed template span
RECURSIVE OutsideTemplates(_)
OutsideTemplates(ts) ==
    IF ts = <<>> THEN <<>>
    ELSE IF Head(ts).typ = "itemLeftMeta"
         THEN LET m == MatchingClose(Tail(ts))
              IN  IF m = 0 THEN <<>>
                  ELSE OutsideTemplates(SubSeq(ts, m + 2, Len(ts)))
    ELSE <<Head(ts)>> \o OutsideTemplates(Tail(ts))

HasLinkOrTitle(ts) ==
    \E i \in 1..Len(ts) : ts[i].typ \in {"itemLeftTag", "itemTitle"}

(***************************************************************************)
(* C6.  parseBracket, called after a LeftMeta: while it runs its depth is  *)
(* the nesting depth of what it has consumed and is positive; when the     *)
(* items that follow hold the matching RightMeta it returns on receiving   *)
(* exactly that item, having consumed nothing after it; so a line made of  *)
(* templates and plain items renders as the items outside the templates,   *)
(* and "{{cite|a={{x}}|b}} after" renders as " after".                     *)
(***************************************************************************)
C6_BracketMatcher ==
    LET T     == CallItems("bracket")
        k     == Len(T)
        first == Len(received) - k
        m     == MatchingClose(ItemsAfter(first))
    IN  /\ pc = "bracket_next" =>
              /\ depth = DepthAfter(T, k)
              /\ depth > 0
              /\ m = 0 \/ k < m
        /\ pc = "bracket_body" =>
              /\ depth = DepthAfter(T, k - 1)
              /\ depth > 0
              /\ m = 0 \/ k <= m
        /\ (pc = "main_next" /\ k > 0) =>
              /\ received[first].by = "main"
              /\ received[first].tok.typ = "itemLeftMeta"
              /\ IF m > 0
                 THEN k = m /\ Last(T).typ = "itemRightMeta" /\ DepthAfter(T, k) = 0
                 ELSE Last(T).typ = "itemEOF"
        /\ (Rendered /\ ~HasLinkOrTitle(AllItems)) =>
              out = printItems(FALSE, OutsideTemplates(AllItems))
        /\ (Rendered /\ l.input = LineNestedTemplate) =>
              out = <<" ", "a", "f", "t", "e", "r">>

C6_Witness ==
    /\ Rendered
    /\ l.input = LineNestedTemplate
    /\ \E i \in 1..Len(received) :
          received[i].by = "bracket" /\ received[i].tok.typ = "itemLeftMeta"

(***************************************************************************)
(* C7.  parseLink, called after a LeftTag, returns on the first RightTag   *)
(* or on EndOfInput, and what it returns renders as the items after the    *)
(* last "|" Mark and before the stopping item (all the items before the    *)
(* stopping item when there is no pipe).                                   *)
(***************************************************************************)
isPipe(it) == it.typ = "itemMark" /\ it.val = <<"|">>

AfterLastPipe(ts) ==
    LET pipes == {i \in 1..Len(ts) : isPipe(ts[i])}
        j     == IF pipes = {} THEN 0
                 ELSE CHOOSE i \in pipes : \A k \in pipes : k <= i
    IN  SubSeq(ts, j + 1, Len(ts))

C7_LinkExtractor ==
    LET T == CallItems("link")
        b == parseLink(text, s)
    IN  /\ pc = "link_next" =>
              \A i \in 1..Len(T) : T[i].typ \notin {"itemRightTag", "itemEOF"}
        /\ pc = "link_body" =>
              /\ \A i \in 1..(Len(T) - 1) :
                     T[i].typ \notin {"itemRightTag", "itemEOF"}
              /\ b.ret = (s.typ \in {"itemRightTag", "itemEOF"})
              /\ b.ret =>
                     printItems(FALSE, b.text)
                         = printItems(FALSE, AfterLastPipe(Front(T)))
        /\ (Rendered /\ l.input = LinePiped) =>
              out = <<"D","i","s","p","l","a","y"," ","t","e","x","t">>
        /\ (Rendered /\ l.input = LineTarget) =>
              out = <<"T","a","r","g","e","t">>
        /\ (Rendered /\ l.input = LineParis) =>
              out = <<"t","h","e"," ","C","i","t","y"," ","i","s"," ",
                      "n","i","c","e">>

C7_Witness ==
    /\ Rendered
    /\ l.input = LineParis
    /\ \E i \in 1..Len(received) : received[i].by = "link" /\ isPipe(received[i].tok)

(***************************************************************************)
(* C8.  parseTitle, called after a Title item, returns on the first Title  *)
(* item that follows, whatever its length, or on EndOfInput, and what it   *)
(* returns renders as the Word, Space and Mark items between the two       *)
(* markers; "== Heading ==" gives " Heading ".                             *)
(***************************************************************************)
C8_TitleExtractor ==
    LET T == CallItems("title")
        b == parseTitle(result, s, level)
    IN  /\ pc = "title_next" =>
              \A i \in 1..Len(T) : T[i].typ \notin {"itemTitle", "itemEOF"}
        /\ pc = "title_body" =>
              /\ \A i \in 1..(Len(T) - 1) :
                     T[i].typ \notin {"itemTitle", "itemEOF"}
              /\ b.ret = (s.typ \in {"itemTitle", "itemEOF"})
              /\ b.ret =>
                     printItems(FALSE, b.result) = printItems(FALSE, Front(T))
              /\ (b.ret /\ l.input = LineHeading) =>
                     printItems(FALSE, b.result)
                         = <<" ","H","e","a","d","i","n","g"," ">>
        /\ (pc = "count" /\ l.input = LineMismatch) =>
              out = <<"\n", " ","T","i","t","l","e"," ", "\n">>

C8_Witness ==
    /\ pc = "title_body"
    /\ l.input = LineMismatch
    /\ s.typ = "itemTitle"
    /\ Len(s.val) # level
    /\ parseTitle(result, s, level).ret

(***************************************************************************)
(* C9.  The text of every Word, Mark, Space, Quote or Title item the lexer *)
(* emits, scanned as a line of its own, gives that one item again and then *)
(* EndOfInput.                                                             *)
(***************************************************************************)
SelfContained == {"itemWord", "itemMark", "itemSpace", "itemQuote", "itemTitle"}

C9_RetokenizeIsIdentity ==
    (g.at = "send" /\ Head(items).typ \in SelfContained) =>
        tokenize(Head(items).val)
            = [items |-> <<Head(items), item("itemEOF", <<>>)>>, panic |-> FALSE]

C9_Witness ==
    /\ g.at = "send"
    /\ l.input = LineDontStop
    /\ Head(items) = item("itemWord", <<"d", "o", "n", "'", "t">>)

(***************************************************************************)
(* C10.  A failing XML parse never yields an item: what lexXML sends is an *)
(* itemXML whose text ends with the bytes of a successful parse.  From the *)
(* failure on, no item is pending or produced: every item produced before  *)
(* it has been delivered, none of them is a terminal item, none of them    *)
(* reaches the '<' the parse failed on, and main, which may still handle   *)
(* the items it has received, does not leave the line.  Once the goroutine *)
(* has panicked nothing happens any more.                                  *)
(***************************************************************************)
RECURSIVE TextOf(_)
TextOf(ts) == IF ts = <<>> THEN <<>> ELSE Head(ts).val \o TextOf(Tail(ts))

\* the lexer is in lexXML at a '<' that RawToken rejects
AtFailingXML ==
    /\ l.state = "lexXML"
    /\ xmlRawToken(SubSeq(l.input, l.pos + 1, Len(l.input))) = 0

C10_XMLFailureHalts ==
    /\ (g.at = "send" /\ l.state = "lexXML") =>
          /\ Head(items).typ = "itemXML"
          /\ \E n \in 1..Len(Head(items).val) :
                 xmlRawToken(SubSeq(l.input, l.pos - n + 1, Len(l.input))) = n
    /\ g.at \in {"failing", "panic"} =>
          /\ AtFailingXML
          /\ l.input[l.pos + 1] = "<"
          /\ items = <<>>
          /\ Delivered = produced
          /\ TerminalsDelivered = {}
          /\ TextOf(Delivered) = SubSeq(l.input, 1, l.start)
          /\ l.start <= l.pos
          /\ pc \notin {"count", "bottom", "scan", "exit"}
    /\ g.at = "panic" => ~ENABLED Next

C10_Witness ==
    /\ g.at = "panic"
    /\ Len(received) >= 2
    /\ pc = "main_next"

(***************************************************************************)
(* Definitions the properties of the scan share.                           *)
(***************************************************************************)
\* the item whose send is pending
Pending == Head(items)

\* the character of the line that follows the text of the pending item,
\* or eof at the end of the line
Following == IF l.pos < Len(l.input) THEN l.input[l.pos + 1] ELSE eof

Contains(v, cs) == \E j \in 1..Len(v) : v[j] \in cs

(***************************************************************************)
(* C11.  A character that no case of lexArticle's switch matches is        *)
(* dropped: no item the lexer produces for the line has it in its text.    *)
(***************************************************************************)
C11_DroppedCharactersVanish ==
    \A i \in 1..Len(produced) : ~Contains(produced[i].val, Control)

(***************************************************************************)
(* C12.  Every Mark item the lexer produces has a text of exactly one      *)
(* character.                                                              *)
(***************************************************************************)
C12_MarkIsOneCharacter ==
    \A i \in 1..Len(produced) :
        produced[i].typ = "itemMark" => Len(produced[i].val) = 1

(***************************************************************************)
(* C13.  No Word item has two apostrophes in a row in its text; a Word     *)
(* that ends before an apostrophe ends before two of them, and the item    *)
(* after it is a Quote of at least two apostrophes; "don't stop" scans as  *)
(* Word("don't") Space(" ") Word("stop") EndOfInput.                       *)
(***************************************************************************)
DoubledApostrophe(v) ==
    \E j \in 1..(Len(v) - 1) : v[j] = "'" /\ v[j + 1] = "'"

C13_WordStopsBeforeQuote ==
    LET k == Len(produced)
    IN  /\ \A i \in 1..k :
               produced[i].typ = "itemWord" => ~DoubledApostrophe(produced[i].val)
        /\ (g.at = "send" /\ Pending.typ = "itemWord" /\ Following = "'") =>
               /\ l.pos + 2 <= Len(l.input)
               /\ l.input[l.pos + 2] = "'"
        /\ (g.at = "send" /\ k > 1 /\ produced[k - 1].typ = "itemWord"
              /\ l.start < Len(l.input) /\ l.input[l.start + 1] = "'") =>
               /\ Pending.typ = "itemQuote"
               /\ Len(Pending.val) >= 2
               /\ \A j \in 1..Len(Pending.val) : Pending.val[j] = "'"
        /\ (g.at = "done" /\ l.input = LineDontStop) =>
               produced = <<item("itemWord", <<"d","o","n","'","t">>),
                            item("itemSpace", <<" ">>),
                            item("itemWord", <<"s","t","o","p">>),
                            item("itemEOF", <<>>)>>

C13_Witness ==
    /\ g.at = "send"
    /\ Len(produced) = 2
    /\ produced[1] = item("itemWord", <<"a">>)
    /\ Pending = item("itemQuote", <<"'", "'">>)

(***************************************************************************)
(* C14.  The cursor stays in range: 0 <= start <= pos <= len(input) after  *)
(* every call of next, backup, peek, accept, ignore and emit the state     *)
(* functions have made, and in every state of the scan.                    *)
(***************************************************************************)
C14_CursorInRange ==
    /\ l.ranged
    /\ 0 <= l.start
    /\ l.start <= l.pos
    /\ l.pos <= Len(l.input)

C14_Witness ==
    /\ g.at = "send"
    /\ l.maxBackups >= 1
    /\ 0 < l.start
    /\ l.start < l.pos
    /\ l.pos < Len(l.input)

(***************************************************************************)
(* C15.  backup is called at most once after each call of next: no two     *)
(* calls of backup without a call of next between them.                    *)
(***************************************************************************)
C15_BackupOncePerNext == l.maxBackups <= 1

(***************************************************************************)
(* C16.  The lexer never enters lexNumber and produces no Number and no    *)
(* Error item; an item with a digit in its text is a Word (or an XML       *)
(* element), and "in 1999" scans as Word Space Word("1999") EndOfInput.    *)
(***************************************************************************)
C16_NumbersAreWords ==
    /\ l.state # "lexNumber"
    /\ g.ret # "lexNumber"
    /\ \A i \in 1..Len(produced) :
           /\ produced[i].typ \notin {"itemNumber", "itemError"}
           /\ Contains(produced[i].val, Digit) =>
                  produced[i].typ \in {"itemWord", "itemXML"}
    /\ (g.at = "done" /\ l.input = LineYear) =>
           produced = <<item("itemWord", <<"i","n">>),
                        item("itemSpace", <<" ">>),
                        item("itemWord", <<"1","9","9","9">>),
                        item("itemEOF", <<>>)>>

C16_Witness ==
    /\ g.at = "send"
    /\ l.input = LineDecimal
    /\ Pending = item("itemWord", <<"1","4","a">>)

(***************************************************************************)
(* C17.  Quote, Title and Space items are maximal runs: the character of   *)
(* the line right after a Quote item is no apostrophe, after a Title item  *)
(* no '=', after a Space item neither a space nor a tab.                   *)
(***************************************************************************)
C17_MaximalRuns ==
    g.at = "send" =>
        /\ Pending.typ = "itemQuote" => Following # "'"
        /\ Pending.typ = "itemTitle" => Following # "="
        /\ Pending.typ = "itemSpace" => ~isSpace(Following)

C17_Witness ==
    /\ g.at = "send"
    /\ Pending = item("itemSpace", <<" ", " ">>)
    /\ Following = "a"

(***************************************************************************)
(* C18.  Every item parseLink returns and every item parseTitle returns    *)
(* adds one to the count of the line, as every item main renders itself    *)
(* does.  The items a call has returned are read off `received`: a call    *)
(* is an unbroken run of items received by the same consumer.              *)
(***************************************************************************)
MainCounted ==
    {i \in 1..Len(received) :
        /\ received[i].by = "main"
        /\ received[i].tok.typ \notin
               {"itemEOF", "itemLeftMeta", "itemLeftTag", "itemTitle"}}

LinkReturned ==
    {i \in 1..Len(received) :
        /\ received[i].by = "link"
        /\ received[i].tok.typ # "itemEOF"
        /\ ~\E j \in i..Len(received) :
               /\ \A k \in i..j : received[k].by = "link"
               /\ isPipe(received[j].tok)}

TitleReturned ==
    {i \in 1..Len(received) :
        received[i].by = "title" /\ received[i].tok.typ # "itemEOF"}

C18_ReturnedItemsCounted ==
    pc = "count" =>
        count = Cardinality(MainCounted) + Cardinality(LinkReturned)
                  + Cardinality(TitleReturned)

(***************************************************************************)
(* C19.  The texts of the items the lexer produces are consecutive slices  *)
(* of the line: those sent so far make up the line up to start, the item   *)
(* whose send is pending is the line from start to pos, and once the scan  *)
(* has ended without a panic the texts, that of the EndOfInput item        *)
(* included, make up the whole line.                                       *)
(***************************************************************************)
C19_ItemsCoverTheLine ==
    /\ g.at \in {"run", "done", "failing", "panic"} =>
           TextOf(produced) = SubSeq(l.input, 1, l.start)
    /\ g.at = "send" =>
           /\ TextOf(Front(produced)) = SubSeq(l.input, 1, l.start)
           /\ Pending.val = SubSeq(l.input, l.start + 1, l.pos)
           /\ TextOf(produced) = SubSeq(l.input, 1, l.pos)
    /\ g.at = "done" =>
           /\ Last(produced).typ = "itemEOF"
           /\ TextOf(produced) = l.input

C19_Witness ==
    /\ g.at = "done"
    /\ l.input = <<"a", "\f", "a">>
    /\ produced = <<item("itemWord", <<"a">>),
                    item("itemWord", <<"\f", "a">>),
                    item("itemEOF", <<>>)>>

====
